---------------------------- MODULE Spec2Model ----------------------------
(***************************************************************************)
(* The load-generation engine of TestWithAuth.py ("Auth") and              *)
(* TestWithSxSrf.py ("SxSrf"): the submitting thread of perform_load_test, *)
(* the ThreadPoolExecutor workers running send_request, the shared         *)
(* SXS_TOKEN and the counters from which the summary is computed.          *)
(*                                                                         *)
(* Strings that the code transforms (the session token, the value of the   *)
(* cf-ray-status-id-tn header) are sequences of code points; base64 and    *)
(* UTF-8 are computed on them.  Times: execution_time is a whole number of *)
(* milliseconds, total_execution_time is the binary64 number of seconds    *)
(* the code accumulates, the clock is in ticks of 1/NUM_THREADS second (so *)
(* RAMP_UP_PERIOD / NUM_THREADS seconds is RAMP_UP_PERIOD ticks).  The     *)
(* quotients of the summary are kept as fractions [num, den].              *)
(***************************************************************************)
EXTENDS Integers, Sequences, FiniteSets, TLC

\* ------------------------------------------------------------------ bounds
MaxThreads == 2
MaxLoops == 3
\* tasks submitted in one run: the configurations explored have
\* NUM_THREADS * LOOP_COUNT <= MaxTasks
MaxTasks == 3
\* with LOOP_COUNT "inf", the passes of the outer loop that are followed (as
\* long as they fit in MaxTasks submissions)
MaxIter == 3
MaxOutcomes == 3

\* ------------------------------------------------------- values and inputs
\* a position that holds None or a number (status_code, execution_time,
\* min_time, max_time): None, or Some(n) for the number n
None == <<>>
Some(n) == <<n>>
Value(o) == o[1]
\* LOOP_COUNT == "inf"
INF == -1

\* the engines: the two scripts of the repository
Engines == {"Auth", "SxSrf"}

\* an undefined quotient (avg_time = None) and the quotient n/d
NoneQ == [num |-> 0, den |-> 0]
Q(n, d) == [num |-> n, den |-> d]

\* what the transport call can do: raise, or return a response with a status,
\* a measured latency and a value of the cf-ray-status-id-tn header (<<>>: the
\* header is absent or empty).  <<233, 66>> is a two character value whose
\* first character is not ASCII.
TransportError == [raises |-> TRUE, status_code |-> None, execution_time |-> None,
                   cf_header_value |-> <<>>]
Responses ==
    { [raises |-> FALSE, status_code |-> Some(200), execution_time |-> Some(40),
       cf_header_value |-> <<>>],
      [raises |-> FALSE, status_code |-> Some(201), execution_time |-> Some(50),
       cf_header_value |-> <<233, 66>>],
      [raises |-> FALSE, status_code |-> Some(404), execution_time |-> Some(40),
       cf_header_value |-> <<65, 66, 67, 68>>],
      TransportError }

\* RAMP_UP_PERIOD: no ramp-up, or the 1 second both scripts configure
RampUpPeriods == {0, 1}

\* the configured SXS_TOKEN: "" (TestWithSxSrf.py) or a non-empty seed
Seeds == { <<>>, <<115>> }

VARIABLES
    engine,               \* which script runs
    NUM_THREADS, RAMP_UP_PERIOD, LOOP_COUNT, SEND_SXS_TOKEN,   \* configuration
    SXS_TOKEN,            \* the module-level token (rebound by send_request in SxSrf)
    pc,                   \* position of the submitting thread
    iteration,            \* index of the current pass of the outer loop
    thread_id,            \* index of the inner loop
    futures,              \* the list of futures, with what each task did
    yielded,              \* futures the running as_completed call has yielded
    total_requests, passed, failed, execution_times, total_execution_time,
    clock,                \* time slept by the submitting thread so far
    summary               \* the summaries computed (at most one)

config == <<engine, NUM_THREADS, RAMP_UP_PERIOD, LOOP_COUNT, SEND_SXS_TOKEN>>
counters == <<total_requests, passed, failed, execution_times, total_execution_time>>
vars == <<config, SXS_TOKEN, pc, iteration, thread_id, futures, yielded, counters,
          clock, summary>>

\* ----------------------------------------------------------------- base64
\* str.encode("utf-8") raises UnicodeEncodeError when s holds a surrogate
UnicodeEncodeError(s) == \E k \in 1..Len(s) : s[k] >= 55296 /\ s[k] <= 57343

\* the bytes of one code point
utf8_bytes(c) ==
    IF c < 128 THEN <<c>>
    ELSE IF c < 2048 THEN <<192 + (c \div 64), 128 + (c % 64)>>
    ELSE IF c < 65536
    THEN <<224 + (c \div 4096), 128 + ((c \div 64) % 64), 128 + (c % 64)>>
    ELSE <<240 + (c \div 262144), 128 + ((c \div 4096) % 64), 128 + ((c \div 64) % 64),
           128 + (c % 64)>>

RECURSIVE utf8_concat(_)
utf8_concat(s) == IF s = <<>> THEN <<>> ELSE utf8_bytes(Head(s)) \o utf8_concat(Tail(s))

\* str.encode("utf-8"): the bytes, or the error raised
utf8_encode(s) == IF UnicodeEncodeError(s) THEN "UnicodeEncodeError" ELSE utf8_concat(s)

\* the base64 alphabet
B64Char(n) ==
    IF n < 26 THEN 65 + n
    ELSE IF n < 52 THEN 97 + (n - 26)
    ELSE IF n < 62 THEN 48 + (n - 52)
    ELSE IF n = 62 THEN 43 ELSE 47

RECURSIVE b64encode(_)
b64encode(b) ==
    IF Len(b) = 0 THEN <<>>
    ELSE IF Len(b) = 1 THEN
        <<B64Char(b[1] \div 4), B64Char((b[1] % 4) * 16), 61, 61>>
    ELSE IF Len(b) = 2 THEN
        <<B64Char(b[1] \div 4), B64Char((b[1] % 4) * 16 + (b[2] \div 16)),
          B64Char((b[2] % 16) * 4), 61>>
    ELSE
        <<B64Char(b[1] \div 4), B64Char((b[1] % 4) * 16 + (b[2] \div 16)),
          B64Char((b[2] % 16) * 4 + (b[3] \div 64)), B64Char(b[3] % 64)>>
        \o b64encode(SubSeq(b, 4, Len(b)))

\* bytes.decode("utf-8") on well-formed UTF-8
RECURSIVE utf8_decode(_)
utf8_decode(b) ==
    IF b = <<>> THEN <<>>
    ELSE IF b[1] < 128 THEN <<b[1]>> \o utf8_decode(Tail(b))
    ELSE IF b[1] < 224
    THEN <<(b[1] - 192) * 64 + (b[2] - 128)>> \o utf8_decode(SubSeq(b, 3, Len(b)))
    ELSE IF b[1] < 240
    THEN <<(b[1] - 224) * 4096 + (b[2] - 128) * 64 + (b[3] - 128)>>
         \o utf8_decode(SubSeq(b, 4, Len(b)))
    ELSE <<(b[1] - 240) * 262144 + (b[2] - 128) * 4096 + (b[3] - 128) * 64 + (b[4] - 128)>>
         \o utf8_decode(SubSeq(b, 5, Len(b)))

extract_sxs_token_single_pass(cf_header_value) ==
    IF cf_header_value # <<>>
    THEN IF UnicodeEncodeError(cf_header_value) THEN "UnicodeEncodeError"
         ELSE utf8_decode(b64encode(utf8_encode(cf_header_value)))
    ELSE <<>>

\* extract_sxs_token: <<>> stands for the None it returns without the header;
\* the error of the first encode leaves the function
extract_sxs_token(cf_header_value) ==
    IF cf_header_value # <<>>
    THEN IF UnicodeEncodeError(cf_header_value) THEN "UnicodeEncodeError"
         ELSE LET encoded == utf8_decode(b64encode(utf8_encode(cf_header_value)))
              IN utf8_decode(b64encode(utf8_encode(encoded)))
    ELSE <<>>

\* ------------------------------------------------------------ send_request
SEND_AUTH_TOKEN == FALSE
SEND_ORIGIN == FALSE
AUTH_TOKEN == "your_bearer_auth_token"
ORIGIN_URL == ""
HEADERS == [h \in {"Content-Type"} |-> "application/json"]
NoHeaders == [h \in {} |-> <<>>]

\* headers[k] = v
Put(h, k, v) == [x \in DOMAIN h \cup {k} |-> IF x = k THEN v ELSE h[x]]

\* the name under which each script sends the session token
SessionHeader(e) == IF e = "Auth" THEN "Sxsrf" ELSE "sxsrf"

\* the first lines of send_request: the headers of the request
build_headers(e, send_sxs, token) ==
    LET h0 == HEADERS
        h1 == IF SEND_AUTH_TOKEN THEN Put(h0, "Authorization", <<"Bearer ", AUTH_TOKEN>>) ELSE h0
        h2 == IF e = "Auth"
              THEN (IF send_sxs THEN Put(h1, "Sxsrf", token) ELSE h1)
              ELSE (IF send_sxs /\ token # <<>> THEN Put(h1, "sxsrf", token) ELSE h1)
    IN IF SEND_ORIGIN THEN Put(h2, "Origin", ORIGIN_URL) ELSE h2

\* executor.submit: a future whose task has not started
NewTask(tid, it, now) ==
    [state |-> "pending", thread_id |-> tid, iteration |-> it, submit_time |-> now,
     headers |-> NoHeaders, responded |-> FALSE, status_code |-> None,
     execution_time |-> None, cf_header_value |-> <<>>, raised |-> FALSE,
     exception |-> FALSE, log |-> <<>>]

\* a send_request without its except clause: the error leaves the worker
send_request_return_uncaught(task, r) ==
    IF r.raises
    THEN [task EXCEPT !.state = "finished", !.raised = TRUE, !.exception = TRUE]
    ELSE [task EXCEPT !.state = "finished", !.status_code = r.status_code,
                      !.execution_time = r.execution_time,
                      !.cf_header_value = r.cf_header_value]

\* a received response on which extract_sxs_token raises inside send_request
extract_raises(e, send_sxs, r) ==
    /\ e = "SxSrf" /\ send_sxs /\ ~r.raises
    /\ r.cf_header_value # <<>> /\ UnicodeEncodeError(r.cf_header_value)

\* the words Passed / Failed / Success that send_request writes to the log,
\* in order: the line for the status of a received response, then the line of
\* the except clause when the transport call or extract_sxs_token raised
log_level(e, send_sxs, r) ==
    IF r.raises THEN <<"Failed">>
    ELSE IF e = "Auth" THEN <<"Success">>
    ELSE <<IF r.status_code = Some(200) THEN "Passed" ELSE "Failed">>
         \o (IF extract_raises(e, send_sxs, r) THEN <<"Failed">> ELSE <<>>)

\* what send_request returns into its future: (status_code, execution_time, _),
\* or (None, None, str(e)) from the except clause; never an exception
send_request_return(task, r) ==
    IF r.raises \/ extract_raises(engine, SEND_SXS_TOKEN, r)
    THEN [task EXCEPT !.state = "finished", !.raised = TRUE,
                      !.status_code = None, !.execution_time = None,
                      !.log = log_level(engine, SEND_SXS_TOKEN, r)]
    ELSE [task EXCEPT !.state = "finished", !.status_code = r.status_code,
                      !.execution_time = r.execution_time,
                      !.cf_header_value = r.cf_header_value,
                      !.log = log_level(engine, SEND_SXS_TOKEN, r)]

\* whether send_request reaches `SXS_TOKEN = new_sxs_token` with response r
assigns_token(e, send_sxs, r) ==
    /\ e = "SxSrf" /\ ~r.raises /\ send_sxs
    /\ ~UnicodeEncodeError(r.cf_header_value)
    /\ extract_sxs_token(r.cf_header_value) # <<>>

\* a send_request that forgets the token when the transport fails
send_request_token_reset_on_error(e, send_sxs, token, r) ==
    IF e = "SxSrf" /\ send_sxs /\ r.raises THEN <<>>
    ELSE IF assigns_token(e, send_sxs, r) THEN extract_sxs_token(r.cf_header_value)
    ELSE token

\* SXS_TOKEN after send_request has seen response r
send_request_token(e, send_sxs, token, r) ==
    IF assigns_token(e, send_sxs, r) THEN extract_sxs_token(r.cf_header_value) ELSE token

\* ------------------------------------------------------- perform_load_test
\* in ticks of 1/NUM_THREADS second
ramp_up_interval ==
    IF engine = "Auth"
    THEN (IF NUM_THREADS > 1 THEN RAMP_UP_PERIOD ELSE 0)
    ELSE (IF RAMP_UP_PERIOD <= 0 \/ NUM_THREADS <= 1 THEN 0 ELSE RAMP_UP_PERIOD)

\* ThreadPoolExecutor(max_workers=NUM_THREADS)
max_workers_plus_one == NUM_THREADS + 1
max_workers == NUM_THREADS

\* a loop that runs one pass too many
outer_loop_done_off_by_one(it, total) ==
    IF engine = "Auth"
    THEN total > NUM_THREADS * LOOP_COUNT \/ it + 1 > LOOP_COUNT
    ELSE it + 1 > LOOP_COUNT

\* finite LOOP_COUNT: whether the outer loop ends after pass `it`, `total`
\* requests submitted (Auth: the break, or range(LOOP_COUNT) exhausted)
outer_loop_done(it, total) ==
    IF engine = "Auth"
    THEN total >= NUM_THREADS * LOOP_COUNT \/ it + 1 >= LOOP_COUNT
    ELSE it + 1 >= LOOP_COUNT

\* only status 200 passes
is_passed_200_only(status_code, execution_time) ==
    status_code = Some(200) /\ execution_time # None

\* status_code in [200, 201] and execution_time is not None
is_passed(status_code, execution_time) ==
    status_code \in {Some(200), Some(201)} /\ execution_time # None

\* the two counters after the outcome of a finished task is recorded
passed_after(task) ==
    IF is_passed(task.status_code, task.execution_time) THEN passed + 1 ELSE passed
failed_after(task) ==
    IF is_passed(task.status_code, task.execution_time) THEN failed ELSE failed + 1

\* time slept after the submission of the task with index tid
sleep_after_submit(tid) ==
    IF engine = "Auth" THEN ramp_up_interval
    ELSE IF tid + 1 = NUM_THREADS /\ ramp_up_interval > 0 THEN ramp_up_interval ELSE 0

Running == {i \in 1..Len(futures) : futures[i].state = "running"}
Pending == {i \in 1..Len(futures) : futures[i].state = "pending"}
Finished == {i \in 1..Len(futures) : futures[i].state = "finished"}

RECURSIVE SumSeq(_)
SumSeq(s) == IF s = <<>> THEN 0 ELSE Head(s) + SumSeq(Tail(s))
MinSeq(s) == CHOOSE x \in {s[i] : i \in 1..Len(s)} : \A j \in 1..Len(s) : x <= s[j]
\* a maximum that looks at the first latency only
max_of_first(s) == s[1]
MaxSeq(s) == CHOOSE x \in {s[i] : i \in 1..Len(s)} : \A j \in 1..Len(s) : x >= s[j]

\* ------------------------------------------------------------ binary64
\* Python floats that the code adds and compares (total_execution_time).  A
\* natural number is a sequence of limbs in base 2^15, least significant
\* first.  A float is [neg, mant, exp]: the value (-1)^neg * mant * 2^exp
\* with 2^52 <= mant < 2^53, or mant = 0 for 0.0.  The results are rounded
\* to nearest, ties to even, as the hardware does; exponents are not bounded
\* (no overflow to inf, no subnormals: the sums of latencies are far from both).
Limb(n, i) == IF i >= 1 /\ i <= Len(n) THEN n[i] ELSE 0

\* n * 2^d
BShl(n, d) ==
    LET q == d \div 15
        p == 2 ^ (d % 15)
    IN [i \in 1..(Len(n) + q + 1) |->
            ((Limb(n, i - q) * p) % 32768) + ((Limb(n, i - q - 1) * p) \div 32768)]

\* n \div 2^k
BShr(n, k) ==
    LET q == k \div 15
        p == 2 ^ (k % 15)
    IN [i \in 1..Len(n) |->
            (Limb(n, i + q) \div p) + (Limb(n, i + q + 1) % p) * (32768 \div p)]

\* n % 2^k
BLow(n, k) ==
    LET q == k \div 15
        p == 2 ^ (k % 15)
    IN [i \in 1..Len(n) |-> IF i <= q THEN n[i] ELSE IF i = q + 1 THEN n[i] % p ELSE 0]

BIsZero(n) == \A i \in 1..Len(n) : n[i] = 0

\* the number of bits of n
BBitLen(n) ==
    IF BIsZero(n) THEN 0
    ELSE LET h == CHOOSE i \in 1..Len(n) : n[i] # 0 /\ \A j \in (i + 1)..Len(n) : n[j] = 0
             b == CHOOSE c \in 1..15 : 2 ^ (c - 1) <= n[h] /\ n[h] < 2 ^ c
         IN 15 * (h - 1) + b

\* -1, 0, 1 as a < b, a = b, a > b
BCmp(a, b) ==
    LET m == IF Len(a) > Len(b) THEN Len(a) ELSE Len(b)
        D == {i \in 1..m : Limb(a, i) # Limb(b, i)}
    IN IF D = {} THEN 0
       ELSE LET h == CHOOSE i \in D : \A j \in D : j <= i
            IN IF Limb(a, h) < Limb(b, h) THEN -1 ELSE 1

RECURSIVE BAddFrom(_, _, _, _, _)
BAddFrom(a, b, i, m, carry) ==
    IF i > m THEN <<carry>>
    ELSE LET s == Limb(a, i) + Limb(b, i) + carry
         IN <<s % 32768>> \o BAddFrom(a, b, i + 1, m, s \div 32768)
BAdd(a, b) == BAddFrom(a, b, 1, IF Len(a) > Len(b) THEN Len(a) ELSE Len(b), 0)

\* a - b for a >= b
RECURSIVE BSubFrom(_, _, _, _, _)
BSubFrom(a, b, i, m, borrow) ==
    IF i > m THEN <<>>
    ELSE LET s == Limb(a, i) - Limb(b, i) - borrow
         IN <<IF s < 0 THEN s + 32768 ELSE s>>
            \o BSubFrom(a, b, i + 1, m, IF s < 0 THEN 1 ELSE 0)
BSub(a, b) == BSubFrom(a, b, 1, IF Len(a) > Len(b) THEN Len(a) ELSE Len(b), 0)

\* the quotient and the remainder of n by the small number d, from limb i down
RECURSIVE BDivFrom(_, _, _, _)
BDivFrom(n, d, i, r) ==
    IF i < 1 THEN [quot |-> <<>>, rem |-> r]
    ELSE LET cur == r * 32768 + n[i]
             rest == BDivFrom(n, d, i - 1, cur % d)
         IN [quot |-> Append(rest.quot, cur \div d), rem |-> rest.rem]
BDivSmall(n, d) == BDivFrom(n, d, Len(n), 0)

FZero == [neg |-> FALSE, mant |-> <<0, 0, 0, 0>>, exp |-> 0]
FIsZero(f) == BIsZero(f.mant)
FPositive(f) == ~f.neg /\ ~FIsZero(f)

\* the float nearest to (-1)^neg * (n + a fraction that is nonzero iff
\* sticky) * 2^e, ties to even
FRound(neg, n, sticky, e) ==
    LET len == BBitLen(n)
    IN IF len = 0 THEN FZero
       ELSE IF len <= 53
       THEN [neg |-> neg, mant |-> SubSeq(BShl(n, 53 - len), 1, 4), exp |-> e - (53 - len)]
       ELSE LET k == len - 53
                q == SubSeq(BShr(n, k), 1, 4)
                c == BCmp(BLow(n, k), BShl(<<1>>, k - 1))
                up == c > 0 \/ (c = 0 /\ (sticky \/ q[1] % 2 = 1))
                m == IF up THEN BAdd(q, <<1>>) ELSE q
            IN IF BBitLen(m) = 54
               THEN [neg |-> neg, mant |-> SubSeq(BShr(m, 1), 1, 4), exp |-> e + k + 1]
               ELSE [neg |-> neg, mant |-> SubSeq(m, 1, 4), exp |-> e + k]

\* float(x) / d for an integer x and a small positive integer d
FDivInt(x, d) ==
    LET a == IF x < 0 THEN -x ELSE x
        n == <<0, 0, 0, 0, 0, a % 32768, (a \div 32768) % 32768, a \div (32768 * 32768)>>
        qr == BDivSmall(n, d)
    IN FRound(x < 0, qr.quot, qr.rem # 0, -75)

\* a + b
FAdd(a, b) ==
    IF FIsZero(a) THEN b
    ELSE IF FIsZero(b) THEN a
    ELSE LET hi == IF a.exp >= b.exp THEN a ELSE b
             lo == IF a.exp >= b.exp THEN b ELSE a
             d == hi.exp - lo.exp
         IN IF d > 60 THEN hi
            ELSE LET H == BShl(hi.mant, d)
                     c == BCmp(H, lo.mant)
                 IN IF hi.neg = lo.neg THEN FRound(hi.neg, BAdd(H, lo.mant), FALSE, lo.exp)
                    ELSE IF c = 0 THEN FZero
                    ELSE IF c > 0 THEN FRound(hi.neg, BSub(H, lo.mant), FALSE, lo.exp)
                    ELSE FRound(lo.neg, BSub(lo.mant, H), FALSE, lo.exp)

\* 1.0
FOne == FDivInt(1, 1)

\* -------------------------------------------------------------- statistics
\* statistics whose quotients are not guarded
compute_summary_unguarded ==
    [total_requests |-> total_requests, passed |-> passed, failed |-> failed,
     min_time |-> IF execution_times # <<>> THEN Some(MinSeq(execution_times)) ELSE None,
     max_time |-> IF execution_times # <<>> THEN Some(MaxSeq(execution_times)) ELSE None,
     avg_time |-> IF execution_times # <<>>
                  THEN Q(SumSeq(execution_times), Len(execution_times)) ELSE NoneQ,
     error_percentage |-> Q(failed * 100, total_requests),
     throughput |-> Q(total_requests, total_execution_time)]

\* statistics that fall back to 0 when nothing passed
compute_summary_zero_default ==
    [total_requests |-> total_requests, passed |-> passed, failed |-> failed,
     min_time |-> IF execution_times # <<>> THEN Some(MinSeq(execution_times)) ELSE Some(0),
     max_time |-> IF execution_times # <<>> THEN Some(MaxSeq(execution_times)) ELSE Some(0),
     avg_time |-> IF execution_times # <<>>
                  THEN Q(SumSeq(execution_times), Len(execution_times)) ELSE Q(0, 1),
     error_percentage |-> IF total_requests > 0 THEN Q(failed * 100, total_requests)
                          ELSE Q(0, 1),
     throughput |-> IF FPositive(total_execution_time)
                    THEN Q(total_requests, total_execution_time) ELSE Q(0, FOne)]

\* the statistics computed after the executor block; the throughput 0 of the
\* else branch is written 0 / 1.0
compute_summary ==
    [total_requests |-> total_requests, passed |-> passed, failed |-> failed,
     min_time |-> IF execution_times # <<>> THEN Some(MinSeq(execution_times)) ELSE None,
     max_time |-> IF execution_times # <<>> THEN Some(MaxSeq(execution_times)) ELSE None,
     avg_time |-> IF execution_times # <<>>
                  THEN Q(SumSeq(execution_times), Len(execution_times)) ELSE NoneQ,
     error_percentage |-> IF total_requests > 0 THEN Q(failed * 100, total_requests)
                          ELSE Q(0, 1),
     throughput |-> IF FPositive(total_execution_time)
                    THEN Q(total_requests, total_execution_time) ELSE Q(0, FOne)]

Init ==
    /\ engine \in Engines
    /\ NUM_THREADS \in 1..MaxThreads
    /\ RAMP_UP_PERIOD \in RampUpPeriods
    /\ LOOP_COUNT \in {l \in 1..MaxLoops : NUM_THREADS * l <= MaxTasks} \cup {INF}
    /\ SEND_SXS_TOKEN \in BOOLEAN
    /\ SXS_TOKEN \in Seeds
    /\ pc = "submit"
    /\ iteration = 0
    /\ thread_id = 0
    /\ futures = <<>>
    /\ yielded = {}
    /\ total_requests = 0
    /\ passed = 0
    /\ failed = 0
    /\ execution_times = <<>>
    /\ total_execution_time = FZero
    /\ clock = 0
    /\ summary = <<>>

\* what the transport call of a request of a run of one thread did: a
\* response of status 200 whose measured latency is positive, zero or
\* (the wall clock was set back) negative, or a transport error.  0.1 + 0.2
\* - 0.3 is not 0 in binary64.
Outcomes ==
    { [raises |-> FALSE, status_code |-> Some(200), execution_time |-> Some(t),
       cf_header_value |-> <<>>] : t \in {-300, 0, 100, 200} } \cup {TransportError}
OutcomeSeqs == UNION {[1..n -> Outcomes] : n \in 0..MaxOutcomes}

\* the latencies, in ms, that the runs explored measure
Latencies == {Value(r.execution_time) : r \in (Responses \cup Outcomes) \ {TransportError}}

\* execution_time / 1000 in binary64, for each of them
Seconds == [t \in Latencies |-> FDivInt(t, 1000)]

\* total_execution_time += execution_time / 1000
add_seconds(total, execution_time) == FAdd(total, Seconds[execution_time])

\* total_execution_time after the latencies of s have been added in order
RECURSIVE FSumSeconds(_, _)
FSumSeconds(acc, s) ==
    IF s = <<>> THEN acc ELSE FSumSeconds(add_seconds(acc, Head(s)), Tail(s))

\* the latencies of the passed outcomes of o, in the order of collection
RECURSIVE PassedTimes(_)
PassedTimes(o) ==
    IF o = <<>> THEN <<>>
    ELSE IF is_passed(Head(o).status_code, Head(o).execution_time)
    THEN <<Value(Head(o).execution_time)>> \o PassedTimes(Tail(o))
    ELSE PassedTimes(Tail(o))

\* the state when the as_completed loop has ended, for every sequence of
\* outcomes of the requests (none included: LOOP_COUNT = 0 submits nothing)
\* and every order in which as_completed yields them
InitSummary ==
    \E o \in OutcomeSeqs : \E order \in Permutations(1..Len(o)) :
        LET collected == [k \in 1..Len(o) |-> o[order[k]]] IN
        /\ engine \in Engines
        /\ NUM_THREADS = 1
        /\ RAMP_UP_PERIOD = 0
        /\ LOOP_COUNT = Len(o)
        /\ SEND_SXS_TOKEN = FALSE
        /\ SXS_TOKEN = <<>>
        /\ pc = "drain"
        /\ iteration = IF Len(o) = 0 THEN 0 ELSE Len(o) - 1
        /\ thread_id = 0
        /\ futures = [i \in 1..Len(o) |->
                          send_request_return(
                              [NewTask(0, i - 1, 0) EXCEPT
                                  !.state = "running",
                                  !.headers = build_headers(engine, SEND_SXS_TOKEN, SXS_TOKEN)],
                              o[i])]
        /\ yielded = 1..Len(o)
        /\ total_requests = Len(o)
        /\ passed = Len(PassedTimes(collected))
        /\ failed = Len(o) - Len(PassedTimes(collected))
        /\ execution_times = PassedTimes(collected)
        /\ total_execution_time = FSumSeconds(FZero, PassedTimes(collected))
        /\ clock = 0
        /\ summary = <<>>

\* the values RAMP_UP_PERIOD can be given, a negative one included
AnyRampUpPeriods == RampUpPeriods \cup {-1}

\* the state after ThreadPoolExecutor(max_workers=NUM_THREADS) for any
\* NUM_THREADS and RAMP_UP_PERIOD: the constructor raises ValueError
\* ("max_workers must be greater than 0") when NUM_THREADS <= 0
InitAnyConfig ==
    /\ engine \in Engines
    /\ NUM_THREADS \in 0..MaxThreads
    /\ RAMP_UP_PERIOD \in AnyRampUpPeriods
    /\ LOOP_COUNT \in {l \in 1..MaxLoops : NUM_THREADS * l <= MaxTasks} \cup {INF}
    /\ SEND_SXS_TOKEN \in BOOLEAN
    /\ SXS_TOKEN \in Seeds
    /\ pc = IF NUM_THREADS <= 0 THEN "raised" ELSE "submit"
    /\ iteration = 0
    /\ thread_id = 0
    /\ futures = <<>>
    /\ yielded = {}
    /\ total_requests = 0
    /\ passed = 0
    /\ failed = 0
    /\ execution_times = <<>>
    /\ total_execution_time = FZero
    /\ clock = 0
    /\ summary = <<>>

\* futures.append(executor.submit(send_request, thread_id)); total_requests += 1;
\* the sleep that follows; and the loop control reached after it
Submit ==
    /\ pc = "submit"
    /\ LOOP_COUNT = INF =>
          /\ iteration < MaxIter
          /\ total_requests + (NUM_THREADS - thread_id) <= MaxTasks
    /\ futures' = Append(futures, NewTask(thread_id, iteration, clock))
    /\ total_requests' = total_requests + 1
    /\ IF sleep_after_submit(thread_id) < 0
       THEN \* time.sleep raises ValueError: sleep length must be non-negative
            /\ pc' = "raised"
            /\ UNCHANGED <<thread_id, iteration, clock>>
       ELSE /\ clock' = clock + sleep_after_submit(thread_id)
            /\ IF thread_id + 1 < NUM_THREADS
               THEN /\ thread_id' = thread_id + 1
                    /\ UNCHANGED <<pc, iteration>>
               ELSE /\ thread_id' = 0
                    /\ IF LOOP_COUNT = INF
                       THEN IF engine = "Auth"
                            THEN pc' = pc /\ iteration' = iteration + 1
                            ELSE pc' = "drain" /\ iteration' = iteration
                       ELSE IF outer_loop_done(iteration, total_requests')
                            THEN pc' = "drain" /\ iteration' = iteration
                            ELSE pc' = pc /\ iteration' = iteration + 1
    /\ UNCHANGED <<config, SXS_TOKEN, yielded, passed, failed, execution_times,
                   total_execution_time, summary>>

\* a pool thread runs the first lines of send_request for task i: it reads
\* SXS_TOKEN and builds the request.  The pool threads take the tasks from the
\* queue in the order of submission, each thread one task at a time, so task i
\* has a thread when fewer than max_workers earlier tasks are unfinished; the
\* threads that hold tasks reach these lines in any order.
StartRequest(i) ==
    /\ i \in Pending
    /\ Cardinality({j \in 1..(i - 1) : futures[j].state # "finished"}) < max_workers
    /\ futures' = [futures EXCEPT ![i].state = "running",
                                  ![i].headers = build_headers(engine, SEND_SXS_TOKEN, SXS_TOKEN)]
    /\ UNCHANGED <<config, SXS_TOKEN, pc, iteration, thread_id, yielded, counters,
                   clock, summary>>

\* the transport call of task i returns r or raises, and send_request runs
\* on.  When it rebinds SXS_TOKEN it is still inside send_request afterwards
\* (it logs, then returns): the future is not finished yet while the other
\* threads already see the new token.  Otherwise it runs to its return.
Respond(i, r) ==
    /\ i \in Running
    /\ ~futures[i].responded
    /\ futures' = [futures EXCEPT ![i] =
                       IF assigns_token(engine, SEND_SXS_TOKEN, r)
                       THEN [send_request_return(futures[i], r) EXCEPT
                                !.state = "running", !.responded = TRUE]
                       ELSE send_request_return(futures[i], r)]
    /\ SXS_TOKEN' = send_request_token(engine, SEND_SXS_TOKEN, SXS_TOKEN, r)
    /\ UNCHANGED <<config, pc, iteration, thread_id, yielded, counters, clock, summary>>

\* send_request returns after it has rebound SXS_TOKEN: the future is finished
Return(i) ==
    /\ i \in Running
    /\ futures[i].responded
    /\ futures' = [futures EXCEPT ![i].state = "finished"]
    /\ UNCHANGED <<config, SXS_TOKEN, pc, iteration, thread_id, yielded, counters,
                   clock, summary>>

\* one pass of the body of `for future in as_completed(futures)`
Collect(i) ==
    /\ pc = "drain"
    /\ i \in Finished \ yielded
    /\ yielded' = yielded \cup {i}
    /\ IF futures[i].exception
       THEN \* future.result() raises the task's exception
            /\ pc' = "raised"
            /\ UNCHANGED counters
       ELSE /\ pc' = pc
            /\ passed' = passed_after(futures[i])
            /\ failed' = failed_after(futures[i])
            /\ IF is_passed(futures[i].status_code, futures[i].execution_time)
               THEN /\ execution_times' =
                           Append(execution_times, Value(futures[i].execution_time))
                    /\ total_execution_time' =
                           add_seconds(total_execution_time, Value(futures[i].execution_time))
               ELSE UNCHANGED <<execution_times, total_execution_time>>
            /\ UNCHANGED total_requests
    /\ UNCHANGED <<config, SXS_TOKEN, iteration, thread_id, futures, clock, summary>>

\* a wait that ends with the first completed future
drained_some == yielded # {}

\* as_completed has yielded every future of the list
drained == yielded = 1..Len(futures)

\* SxSrf, LOOP_COUNT == "inf": the while loop goes round
NextIteration ==
    /\ pc = "drain"
    /\ engine = "SxSrf" /\ LOOP_COUNT = INF
    /\ drained
    \* the passes followed are those whose tasks Submit can all take
    /\ iteration + 1 < MaxIter
    /\ total_requests + NUM_THREADS <= MaxTasks
    /\ pc' = "submit"
    /\ iteration' = iteration + 1
    /\ yielded' = {}
    /\ UNCHANGED <<config, SXS_TOKEN, thread_id, futures, counters, clock, summary>>

\* the executor block is left and the statistics are computed and printed
Finalize ==
    /\ pc = "drain"
    /\ LOOP_COUNT # INF
    /\ drained
    /\ summary' = Append(summary, compute_summary)
    /\ pc' = "done"
    /\ UNCHANGED <<config, SXS_TOKEN, iteration, thread_id, futures, yielded, counters,
                   clock>>

WorkerStart == \E i \in 1..Len(futures) : StartRequest(i)
WorkerFinish == \E i \in 1..Len(futures) : \E r \in Responses : Respond(i, r)
WorkerReturn == \E i \in 1..Len(futures) : Return(i)
Collector == \E i \in 1..Len(futures) : Collect(i)

Next ==
    \/ Submit \/ WorkerStart \/ WorkerFinish \/ WorkerReturn
    \/ Collector \/ NextIteration \/ Finalize

Spec == Init /\ [][Next]_vars

\* the run from any configuration, invalid ones included
SpecAnyConfig == InitAnyConfig /\ [][Next]_vars

\* the statistics computed from any collected outcomes
SpecSummary == InitSummary /\ [][Finalize]_vars

\* as_completed has a completed future to yield
CollectorEnabled == pc = "drain" /\ Finished \ yielded # {}

\* WF_vars(Collector), with ENABLED <<Collector>>_vars written out: a Collector
\* step always grows `yielded`, so it is enabled exactly when Collect's guard
\* holds for some future
CollectorFair == []<>(~CollectorEnabled) \/ []<><<Collector>>_vars

\* the submitting thread and the pool threads keep running; every transport
\* call returns or fails
FairSpec ==
    /\ Spec
    /\ WF_vars(Submit) /\ WF_vars(WorkerStart) /\ WF_vars(WorkerFinish)
    /\ WF_vars(WorkerReturn) /\ CollectorFair
    /\ WF_vars(NextIteration) /\ WF_vars(Finalize)

\* ------------------------------------------------------------------ claims
Finite == LOOP_COUNT # INF
Tasks == 1..Len(futures)

\* C1: with a finite LOOP_COUNT the submitting thread submits exactly
\* NUM_THREADS * LOOP_COUNT tasks: the counter (and the list of futures) never
\* exceeds the product, and equals it once submission has stopped.
C1_SubmitsExactlyNxM ==
    Finite =>
        /\ total_requests <= NUM_THREADS * LOOP_COUNT
        /\ Len(futures) = total_requests
        /\ pc # "submit" => total_requests = NUM_THREADS * LOOP_COUNT

C1_Witness ==
    /\ NUM_THREADS = 1 /\ LOOP_COUNT = 3
    /\ pc = "drain" /\ total_requests = 3 /\ Len(futures) = 3

\* C2 as stated: passed + failed = total in every reachable state of a run,
\* during submission, during draining and after it, in finite and in
\* unbounded mode.  The code counts total_requests when a task is submitted
\* and passed / failed when its future is collected.
C2_PassedPlusFailedIsTotalAlways == passed + failed = total_requests

\* what the code does keep: with a finite LOOP_COUNT passed + failed is the
\* number of futures collected so far; it never exceeds total_requests and
\* equals it once every future is collected, so in the summary
CollectedOutcomesCounted ==
    Finite =>
        /\ passed + failed = Cardinality(yielded)
        /\ passed + failed <= total_requests
        /\ pc = "done" =>
             /\ passed + failed = total_requests
             /\ summary[1].passed + summary[1].failed = summary[1].total_requests

\* the tasks whose transport call returned status 200 or 201
ReturnedSuccess ==
    {i \in Tasks : ~futures[i].raised /\ futures[i].status_code \in {Some(200), Some(201)}}
Count(s, v) == Cardinality({k \in 1..Len(s) : s[k] = v})

\* C3: in the summary of a finite run total is NUM_THREADS * LOOP_COUNT, passed
\* counts the tasks whose transport call returned 200 or 201, failed counts
\* all the others, and the latency sequence holds the latencies of the passed
\* tasks and no others, whatever the order of completion.
C3_SummaryCountsOutcomes ==
    (Finite /\ pc = "done") =>
        /\ summary[1].total_requests = NUM_THREADS * LOOP_COUNT
        /\ summary[1].passed = Cardinality(ReturnedSuccess)
        /\ summary[1].failed = Cardinality(Tasks \ ReturnedSuccess)
        /\ Len(execution_times) = Cardinality(ReturnedSuccess)
        /\ \A v \in {Value(r.execution_time) : r \in Responses \ {TransportError}} :
              Count(execution_times, v) =
                  Cardinality({i \in ReturnedSuccess : futures[i].execution_time = Some(v)})

C3_Witness ==
    /\ pc = "done" /\ NUM_THREADS = 1 /\ LOOP_COUNT = 3
    /\ \E i, j, k \in Tasks :
          /\ futures[i].status_code = Some(201) /\ futures[j].status_code = Some(404)
          /\ futures[k].raised
    /\ summary[1].passed = 1 /\ summary[1].failed = 2

\* C4: when every transport call of a finite run raises, the run is not
\* aborted and its summary has total = failed = NUM_THREADS * LOOP_COUNT,
\* passed = 0, an error percentage of 100, undefined (not zero) minimum,
\* maximum and mean, and a throughput of 0.
C4_AllTransportErrors ==
    /\ (Finite /\ \A i \in Tasks : futures[i].state = "finished" => futures[i].raised)
          => pc # "raised"
    /\ (Finite /\ pc = "done" /\ \A i \in Tasks : futures[i].raised) =>
        /\ Len(summary) = 1
        /\ summary[1].total_requests = NUM_THREADS * LOOP_COUNT
        /\ summary[1].passed = 0
        /\ summary[1].failed = NUM_THREADS * LOOP_COUNT
        /\ summary[1].error_percentage.den > 0
        /\ summary[1].error_percentage.num = 100 * summary[1].error_percentage.den
        /\ summary[1].min_time = None /\ summary[1].min_time # Some(0)
        /\ summary[1].max_time = None /\ summary[1].max_time # Some(0)
        /\ summary[1].avg_time = NoneQ /\ summary[1].avg_time.den = 0
        /\ ~FIsZero(summary[1].throughput.den) /\ summary[1].throughput.num = 0

C4_Witness ==
    /\ pc = "done" /\ NUM_THREADS = 1 /\ LOOP_COUNT = 3 /\ Len(summary) = 1
    /\ Len(futures) = 3 /\ \A i \in Tasks : futures[i].raised

\* C6: at most NUM_THREADS requests are in flight (transport call started and
\* not returned) at any moment, however many tasks are queued.
C6_InFlightAtMostN == Cardinality(Running) <= NUM_THREADS

C6_Witness ==
    /\ NUM_THREADS = 1 /\ RAMP_UP_PERIOD = 1
    /\ Cardinality(Running) = 1 /\ Cardinality(Pending) = 2

\* C5: a transport failure stays inside its task.  The error comes back as
\* that task's (None, None) outcome and never as an exception of the future;
\* the step in which it happens changes nothing but that task's future; the
\* run is never aborted; and a finite run in which some task failed still
\* collects every submitted task and reaches its summary.
C5_TransportFailureIsolated ==
    /\ [](pc # "raised")
    /\ [](\A i \in Tasks : futures[i].raised =>
             /\ futures[i].state = "finished" /\ ~futures[i].exception
             /\ futures[i].status_code = None /\ futures[i].execution_time = None)
    /\ [][\A i \in Tasks :
            (futures[i].state = "running" /\ futures'[i].raised) =>
               /\ UNCHANGED <<config, SXS_TOKEN, pc, iteration, thread_id, yielded,
                              counters, clock, summary>>
               /\ \A j \in Tasks \ {i} : futures'[j] = futures[j]]_vars
    /\ (Finite /\ \E i \in Tasks : futures[i].raised)
          ~> (/\ pc = "done" /\ Len(summary) = 1
              /\ yielded = Tasks /\ Len(futures) = NUM_THREADS * LOOP_COUNT
              /\ summary[1].passed + summary[1].failed = NUM_THREADS * LOOP_COUNT
              /\ summary[1].failed >= Cardinality({i \in Tasks : futures[i].raised}))

C5_Witness ==
    /\ pc = "done" /\ Len(summary) = 1 /\ NUM_THREADS = 1 /\ LOOP_COUNT = 3
    /\ futures[1].raised /\ ~futures[2].raised /\ futures[2].status_code = Some(200)
    /\ futures[3].status_code = Some(201)
    /\ summary[1].passed = 2 /\ summary[1].failed = 1

\* the pacing delay RAMP_UP_PERIOD / NUM_THREADS, in clock ticks
PacingDelay == IF NUM_THREADS <= 1 \/ RAMP_UP_PERIOD = 0 THEN 0 ELSE RAMP_UP_PERIOD

\* C7: within every iteration one pacing delay elapses between the submission
\* of a task and the submission of the next one.
C7_PacingBetweenSubmissions ==
    \A i \in Tasks :
        (i + 1 \in Tasks /\ futures[i + 1].iteration = futures[i].iteration) =>
            futures[i + 1].submit_time - futures[i].submit_time = PacingDelay

\* C8: a finite run terminates.  Submission stops at NUM_THREADS * LOOP_COUNT
\* tasks, every submitted task completes, and the summary is produced exactly
\* once, when no submitted task is outstanding, after which nothing changes.
C8_FiniteRunTerminates ==
    /\ Finite ~> (pc = "done" /\ Len(summary) = 1)
    /\ [](Len(summary) <= 1 /\ (pc = "done" <=> Len(summary) = 1))
    /\ [](Len(summary) = 1 =>
             /\ Finite /\ Len(futures) = NUM_THREADS * LOOP_COUNT
             /\ \A i \in Tasks : futures[i].state = "finished")
    /\ [][pc = "done" => UNCHANGED vars]_vars

C8_Witness ==
    /\ pc = "done" /\ Len(summary) = 1 /\ NUM_THREADS = 1 /\ LOOP_COUNT = 3
    /\ Len(futures) = 3 /\ \A i \in Tasks : futures[i].state = "finished"

\* base64 decoding, the inverse the claim speaks of
B64Index(c) ==
    IF c >= 65 /\ c <= 90 THEN c - 65
    ELSE IF c >= 97 /\ c <= 122 THEN c - 97 + 26
    ELSE IF c >= 48 /\ c <= 57 THEN c - 48 + 52
    ELSE IF c = 43 THEN 62 ELSE 63

RECURSIVE b64decode(_)
b64decode(s) ==
    IF Len(s) < 4 THEN <<>>
    ELSE LET a == B64Index(s[1])
             b == B64Index(s[2])
             c == B64Index(s[3])
             d == B64Index(s[4])
         IN IF s[3] = 61 THEN <<a * 4 + (b \div 16)>>
            ELSE IF s[4] = 61 THEN <<a * 4 + (b \div 16), (b % 16) * 16 + (c \div 4)>>
            ELSE <<a * 4 + (b \div 16), (b % 16) * 16 + (c \div 4), (c % 4) * 64 + d>>
                 \o b64decode(SubSeq(s, 5, Len(s)))

\* base64.b64decode(base64.b64decode(token).decode()).decode()
DecodeTwice(token) ==
    utf8_decode(b64decode(utf8_encode(utf8_decode(b64decode(utf8_encode(token))))))

\* the step in which the transport call of task i returns or raises
Responding(i) ==
    /\ futures[i].state = "running" /\ ~futures[i].responded
    /\ futures'[i].responded \/ futures'[i].state = "finished"

\* C9: with chaining enabled, the step in which a response carrying a
\* non-empty rotation header value V arrives leaves in SXS_TOKEN a non-empty
\* token from which two decodings recover V; and the step that builds a
\* request while the token is non-empty puts exactly the current SXS_TOKEN in
\* the session header, so a request built after the update and before any
\* other carries the two-pass encoding of V.
C9_TokenChainingRoundTrip ==
    [][/\ \A i \in Tasks :
            (/\ engine = "SxSrf" /\ SEND_SXS_TOKEN
             /\ Responding(i)
             /\ futures'[i].cf_header_value # <<>>)
            => /\ SXS_TOKEN' # <<>>
               /\ Len(SXS_TOKEN') % 4 = 0
               /\ DecodeTwice(SXS_TOKEN') = futures'[i].cf_header_value
       /\ \A i \in Tasks :
            (/\ engine = "SxSrf" /\ SEND_SXS_TOKEN /\ SXS_TOKEN # <<>>
             /\ futures[i].state = "pending" /\ futures'[i].state = "running")
            => /\ SessionHeader(engine) \in DOMAIN futures'[i].headers
               /\ futures'[i].headers[SessionHeader(engine)] = SXS_TOKEN
      ]_vars

\* a request that carries the token made from the header value of an earlier
\* response, which is not the configured seed
C9_Witness ==
    /\ engine = "SxSrf" /\ SEND_SXS_TOKEN
    /\ \E i, j \in Tasks :
          /\ i # j
          /\ futures[i].cf_header_value = <<233, 66>>
          /\ futures[j].state # "pending"
          /\ "sxsrf" \in DOMAIN futures[j].headers
          /\ futures[j].headers["sxsrf"] \notin Seeds
          /\ DecodeTwice(futures[j].headers["sxsrf"]) = futures[i].cf_header_value

\* C10: a built request carries the session header only if chaining is enabled
\* and the token is non-empty, in both scripts.
C10_SessionHeaderOnlyWithToken ==
    \A i \in Tasks :
        (futures[i].state # "pending" /\ SessionHeader(engine) \in DOMAIN futures[i].headers)
            => (SEND_SXS_TOKEN /\ futures[i].headers[SessionHeader(engine)] # <<>>)

\* C11 as stated: SXS_TOKEN changes only in the step in which a task receives
\* the response that makes it a Success (status 200 or 201).
C11_TokenChangedOnlyBySuccess ==
    [][SXS_TOKEN' # SXS_TOKEN =>
          \E i \in Tasks :
              Responding(i) /\ futures'[i].status_code \in {Some(200), Some(201)}]_vars

\* C12 as stated: in unbounded mode the handles the dispatcher retains (the
\* futures list) never exceed one iteration's worth, NUM_THREADS, however many
\* iterations have run.
C12_RetainedHandlesBounded == LOOP_COUNT = INF => Len(futures) <= NUM_THREADS

\* C13 as stated: in unbounded mode the dispatcher periodically forwards
\* outcomes to the collector, so that every task that completes is eventually
\* recorded while the run continues, in both engines.  Periodically: every
\* pass of the outer loop ends in the as_completed loop.  So whenever a
\* completed task is not recorded and the dispatcher submits the last task of
\* a pass, that submission hands over to the as_completed loop.
C13_UnboundedPassEndsInDrain ==
    [][(/\ LOOP_COUNT = INF
        /\ Finished \ yielded # {}
        /\ pc = "submit" /\ thread_id + 1 = NUM_THREADS
        /\ Len(futures') = Len(futures) + 1)
       => pc' = "drain"]_vars

\* the unbounded Auth run never leaves the submission loop, whatever the
\* number of passes: nothing is ever collected
AuthUnboundedNeverCollects ==
    (engine = "Auth" /\ LOOP_COUNT = INF) =>
        (pc = "submit" /\ yielded = {} /\ passed + failed = 0)

\* the unbounded SxSrf run does record: every pass ends in the as_completed
\* loop, which yields every completed task
SxSrfUnboundedPassEndsInDrain ==
    [][(/\ engine = "SxSrf" /\ LOOP_COUNT = INF
        /\ pc = "submit" /\ thread_id + 1 = NUM_THREADS
        /\ Len(futures') = Len(futures) + 1)
       => pc' = "drain"]_vars
SxSrfUnboundedRecords ==
    \A i \in 1..MaxTasks :
        (engine = "SxSrf" /\ LOOP_COUNT = INF /\ i \in Finished) ~> (i \in yielded)

\* C17 as stated: in unbounded mode every outcome is counted at most once, so
\* passed + failed never exceeds the number of submitted tasks and the latency
\* sequence never holds more entries than there are submitted tasks.
C17_CountedAtMostOnce ==
    LOOP_COUNT = INF =>
        /\ passed + failed <= total_requests
        /\ Len(execution_times) <= total_requests

\* C18 as stated: submission never waits for a submitted task to complete.
\* The submitting thread is in the blocking as_completed wait only when
\* nothing is left to submit (a finite run whose NUM_THREADS * LOOP_COUNT
\* tasks are all submitted).
C18_SubmissionNeverWaits ==
    pc = "drain" => (Finite /\ total_requests = NUM_THREADS * LOOP_COUNT)

\* the token is the seed or the two-pass encoding of a delivered header value
TokenProvenance ==
    \/ SXS_TOKEN \in Seeds
    \/ \E i \in Tasks : /\ ~futures[i].raised
                        /\ futures[i].cf_header_value # <<>>
                        /\ SXS_TOKEN = extract_sxs_token(futures[i].cf_header_value)

\* C19: the step in which the transport call of a task fails, or returns a
\* response whose rotation header is absent or empty, leaves SXS_TOKEN
\* unchanged; SXS_TOKEN changes only to the two-pass encoding of the header
\* value delivered to a task in that step; so SXS_TOKEN is always the seed or
\* the two-pass encoding of a header value some task has received, whatever
\* the interleaving of the pool threads.
C19_TokenFrame ==
    /\ []TokenProvenance
    /\ [][/\ \A i \in Tasks :
                (Responding(i) /\ (futures'[i].raised \/ futures'[i].cf_header_value = <<>>))
                    => SXS_TOKEN' = SXS_TOKEN
          /\ SXS_TOKEN' # SXS_TOKEN =>
                \E i \in Tasks :
                    /\ Responding(i) /\ ~futures'[i].raised
                    /\ futures'[i].cf_header_value # <<>>
                    /\ SXS_TOKEN' = extract_sxs_token(futures'[i].cf_header_value)
         ]_vars

\* one thread: a response delivered the header, then a transport call failed,
\* and the token is still the encoding of the delivered header
C19_Witness ==
    /\ engine = "SxSrf" /\ SEND_SXS_TOKEN /\ NUM_THREADS = 1
    /\ SXS_TOKEN = extract_sxs_token(<<65, 66, 67, 68>>)
    /\ \E i, j \in Tasks :
          /\ i < j
          /\ futures[i].state = "finished" /\ futures[i].cf_header_value = <<65, 66, 67, 68>>
          /\ futures[j].state = "finished" /\ futures[j].raised

\* C20 as stated: a finished request is logged as passed/success by
\* send_request exactly when the as_completed loop counts it in passed.
C20_LogAgreesWithCollector ==
    \A i \in Finished :
        (\E k \in DOMAIN futures[i].log : futures[i].log[k] \in {"Passed", "Success"})
            <=> is_passed(futures[i].status_code, futures[i].execution_time)

\* C14 as stated: with NUM_THREADS < 1 or a negative RAMP_UP_PERIOD the run
\* does not start: no task is ever submitted.
C14_InvalidConfigNeverStarts ==
    (NUM_THREADS < 1 \/ RAMP_UP_PERIOD < 0) => Len(futures) = 0

\* C15: the summary is computed without a zero divisor for every collected
\* sequence of outcomes, the empty one and those whose passed latencies add up
\* to zero or less included; throughput is 0 when nothing passed (and whenever
\* the accumulated passed latency is not positive), and error_percentage is 0
\* when total_requests is 0.
C15_SummaryDefined ==
    pc = "done" =>
        LET s == summary[Len(summary)] IN
        /\ s.error_percentage.den # 0
        /\ ~FIsZero(s.throughput.den)
        /\ passed = 0 => s.throughput = Q(0, FOne)
        /\ ~FPositive(total_execution_time) => s.throughput = Q(0, FOne)
        /\ FPositive(total_execution_time) =>
              s.throughput = Q(total_requests, total_execution_time)
        /\ total_requests = 0 => s.error_percentage = Q(0, 1)
        /\ total_requests > 0 => s.error_percentage = Q(failed * 100, total_requests)

\* a summary of requests that passed with an accumulated latency of zero
C15_Witness ==
    /\ pc = "done"
    /\ passed > 0 /\ failed > 0 /\ FIsZero(total_execution_time)
    /\ summary[1].throughput = Q(0, FOne)

\* C16: for every non-empty sequence of passed latencies, in every order of
\* collection, min_time <= avg_time <= max_time, that is
\* min_time * count <= sum <= max_time * count.  (The latencies time.time()
\* measures are integer multiples of one clock quantum, so their sum is exact
\* in binary64 and the correctly rounded quotient stays between the two
\* representable bounds; the model counts latencies in integers.)
C16_MinMeanMax ==
    (pc = "done" /\ execution_times # <<>>) =>
        LET s == summary[Len(summary)] IN
        /\ s.avg_time.den = Len(execution_times)
        /\ s.avg_time.num = SumSeq(execution_times)
        /\ s.min_time # None /\ s.max_time # None
        /\ Value(s.min_time) * s.avg_time.den <= s.avg_time.num
        /\ s.avg_time.num <= Value(s.max_time) * s.avg_time.den
        /\ \A i \in 1..Len(execution_times) :
              /\ Value(s.min_time) <= execution_times[i]
              /\ execution_times[i] <= Value(s.max_time)

\* a summary of three different latencies collected smallest last
C16_Witness ==
    /\ pc = "done"
    /\ execution_times = <<200, 100, -300>>
    /\ summary[1].min_time = Some(-300) /\ summary[1].max_time = Some(200)
    /\ summary[1].avg_time = Q(0, 3)

=============================================================================
